---------------------------- MODULE Spec2Model ----------------------------
(***************************************************************************)
(* Model of src/src/main.rs: the hash-lock transaction builder.            *)
(*                                                                         *)
(* Strings are sequences of one-character strings, byte strings are        *)
(* sequences of 0..255, and fixed-width integers (u32, u64) are their      *)
(* little-endian byte sequences, so that 64-bit arithmetic keeps its width *)
(* (the subtraction at main.rs:57 can wrap).  The library calls the source *)
(* makes (hex, bitcoin::consensus::encode, Builder, Address) are modelled  *)
(* by what they compute.                                                   *)
(***************************************************************************)
EXTENDS Integers, Sequences, FiniteSets, TLC

\* How many times a built transaction may be kept as the next prior one.
MaxChain == 1

(***************************************************************************)
(* Evaluation helper: Bind(e, F) is F(e) with e evaluated once.            *)
(***************************************************************************)
Only(S) == CHOOSE x \in S : TRUE
Bind(e, F(_)) == Only({F(x) : x \in {e}})

(***************************************************************************)
(* Bytes and little-endian integers                                        *)
(***************************************************************************)
RECURSIVE ToLE(_, _)
\* n as w little-endian bytes (n \in Nat)
ToLE(n, w) == IF w = 0 THEN <<>> ELSE <<n % 256>> \o ToLE(n \div 256, w - 1)

Zeros(n) == [i \in 1..n |-> 0]

U32(n) == ToLE(n, 4)
U64(n) == ToLE(n, 8)
U32_MAX == [i \in 1..4 |-> 255]
U64_MAX == [i \in 1..8 |-> 255]

RECURSIVE SubBorrow(_, _, _, _)
\* bytes i..Len(a) of a - b - borrow, little-endian, followed by the final borrow
SubBorrow(a, b, i, borrow) ==
    IF i > Len(a) THEN <<borrow>>
    ELSE LET d == a[i] - b[i] - borrow
         IN  IF d < 0 THEN <<d + 256>> \o SubBorrow(a, b, i + 1, 1)
                      ELSE <<d>> \o SubBorrow(a, b, i + 1, 0)

\* u64 subtraction: overflowed iff b > a; value is a - b modulo 2^64
CheckedSub(a, b) ==
    LET r == SubBorrow(a, b, 1, 0)
    IN  [overflow |-> r[Len(a) + 1] = 1, value |-> SubSeq(r, 1, Len(a))]

RECURSIVE AddCarry(_, _, _, _)
\* a + b as Len(a)+1 little-endian bytes: the exact sum, never wrapped
AddCarry(a, b, i, carry) ==
    IF i > Len(a) THEN <<carry>>
    ELSE LET d == a[i] + b[i] + carry
         IN  <<d % 256>> \o AddCarry(a, b, i + 1, d \div 256)

ExactSum(a, b) == AddCarry(a, b, 1, 0)
Widen(a) == a \o <<0>>
Leq(a, b) == ~CheckedSub(b, a).overflow

(***************************************************************************)
(* hex::decode and to_hex                                                  *)
(***************************************************************************)
HexChars == <<"0","1","2","3","4","5","6","7","8","9","a","b","c","d","e","f">>
UpperHex == <<"A","B","C","D","E","F">>

IsHexChar(c) == (\E i \in 1..16 : HexChars[i] = c) \/ (\E i \in 1..6 : UpperHex[i] = c)

HexVal(c) == IF \E i \in 1..16 : HexChars[i] = c
             THEN (CHOOSE i \in 1..16 : HexChars[i] = c) - 1
             ELSE (CHOOSE i \in 1..6 : UpperHex[i] = c) + 9

\* hex::decode: Err(OddLength), Err(InvalidHexCharacter) or Ok(bytes)
hex_decode(str) ==
    Bind(str, LAMBDA s :
        IF Len(s) % 2 = 1 THEN [ok |-> FALSE, err |-> "OddLength", bytes |-> <<>>]
        ELSE IF \E i \in 1..Len(s) : ~IsHexChar(s[i])
             THEN [ok |-> FALSE, err |-> "InvalidHexCharacter", bytes |-> <<>>]
             ELSE [ok |-> TRUE, err |-> "",
                   bytes |-> [i \in 1..(Len(s) \div 2) |->
                                16 * HexVal(s[2 * i - 1]) + HexVal(s[2 * i])]])

\* to_hex: two lower-case digits per byte
to_hex(bytes) ==
    Bind(bytes, LAMBDA b :
        [i \in 1..(2 * Len(b)) |->
            IF i % 2 = 1 THEN HexChars[(b[(i + 1) \div 2] \div 16) + 1]
                         ELSE HexChars[(b[i \div 2] % 16) + 1]])

(***************************************************************************)
(* Script builder (bitcoin::blockdata::script::Builder) and opcodes        *)
(***************************************************************************)
OP_SHA256 == 168
OP_EQUAL == 135
OP_DUP == 118
OP_HASH160 == 169
OP_EQUALVERIFY == 136
OP_CHECKSIG == 172
OP_PUSHDATA1 == 76
OP_PUSHDATA2 == 77
OP_PUSHDATA4 == 78

\* Builder::new().push_slice(data).into_script(): the shortest push of data
push_slice(slice) ==
    Bind(slice, LAMBDA data :
        LET n == Len(data)
        IN  IF n < OP_PUSHDATA1 THEN <<n>> \o data
            ELSE IF n < 256 THEN <<OP_PUSHDATA1, n>> \o data
            ELSE IF n < 65536 THEN <<OP_PUSHDATA2>> \o ToLE(n, 2) \o data
            ELSE <<OP_PUSHDATA4>> \o ToLE(n, 4) \o data)

push_opcode(op) == <<op>>

(***************************************************************************)
(* Addresses (bitcoin::util::address::Address)                             *)
(***************************************************************************)
NoAddress == [network |-> "none", kind |-> "none", version |-> 0, program |-> <<>>]

\* Address::script_pubkey
script_pubkey(addr) ==
    CASE addr.kind = "p2pkh" ->
            <<OP_DUP, OP_HASH160>> \o push_slice(addr.program) \o <<OP_EQUALVERIFY, OP_CHECKSIG>>
      [] addr.kind = "p2sh" ->
            <<OP_HASH160>> \o push_slice(addr.program) \o <<OP_EQUAL>>
      [] OTHER ->
            <<IF addr.version = 0 THEN 0 ELSE 80 + addr.version>> \o push_slice(addr.program)

is_p2pkh(s) == /\ Len(s) = 25
               /\ s[1] = OP_DUP /\ s[2] = OP_HASH160 /\ s[3] = 20
               /\ s[24] = OP_EQUALVERIFY /\ s[25] = OP_CHECKSIG

is_p2sh(s) == Len(s) = 23 /\ s[1] = OP_HASH160 /\ s[2] = 20 /\ s[23] = OP_EQUAL

is_witness_program(s) ==
    /\ Len(s) >= 4 /\ Len(s) <= 42
    /\ (s[1] = 0 \/ (s[1] >= 81 /\ s[1] <= 96))
    /\ s[2] >= 2 /\ s[2] <= 40
    /\ Len(s) - 2 = s[2]

\* Address::from_script: Some(address) for the standard templates, None otherwise
Address_from_script(script, network) ==
    Bind(script, LAMBDA s :
        IF is_p2pkh(s)
        THEN [some |-> TRUE,
              addr |-> [network |-> network, kind |-> "p2pkh", version |-> 0,
                        program |-> SubSeq(s, 4, 23)]]
        ELSE IF is_p2sh(s)
        THEN [some |-> TRUE,
              addr |-> [network |-> network, kind |-> "p2sh", version |-> 0,
                        program |-> SubSeq(s, 3, 22)]]
        ELSE IF is_witness_program(s)
        THEN [some |-> TRUE,
              addr |-> [network |-> network, kind |-> "witness",
                        version |-> IF s[1] = 0 THEN 0 ELSE s[1] - 80,
                        program |-> SubSeq(s, 3, Len(s))]]
        ELSE [some |-> FALSE, addr |-> NoAddress])

(***************************************************************************)
(* Hashes.  A digest is 32 bytes; the hash functions are abstracted as     *)
(* tagged digests: the tag, the length, and the input folded into 30 bytes *)
(* (byte k of the input is added into digest byte 3 + (k - 1) % 30, for    *)
(* the first 150 bytes), so different inputs of up to 30 bytes have        *)
(* different digests.                                                      *)
(***************************************************************************)
ByteAt(b, k) == IF k <= Len(b) THEN b[k] ELSE 0

HashModel(tag, input) ==
    Bind(input, LAMBDA b :
        [i \in 1..32 |->
            IF i = 1 THEN tag
            ELSE IF i = 2 THEN Len(b) % 256
            ELSE (ByteAt(b, i - 2) + ByteAt(b, i + 28) + ByteAt(b, i + 58)
                  + ByteAt(b, i + 88) + ByteAt(b, i + 118)) % 256])

\* single SHA-256, the ledger hash of the hash-lock predicate (OP_SHA256)
Sha256(b) == HashModel(162, b)
\* double SHA-256 (transaction identifiers, signature hashes)
Sha256d(b) == HashModel(221, b)

\* the "one" digest a SIGHASH_SINGLE hash gives when there is no output to sign
UINT256_ONE == <<1>> \o Zeros(31)

(***************************************************************************)
(* Transactions and their consensus encoding                               *)
(* (bitcoin::blockdata::transaction, bitcoin::consensus::encode)           *)
(***************************************************************************)
TxOut(value, script) == [value |-> value, script_pubkey |-> script]

OutPoint(txid, vout) == [txid |-> txid, vout |-> vout]

TxIn(previous_output, script_sig, sequence, witness) ==
    [previous_output |-> previous_output, script_sig |-> script_sig,
     sequence |-> sequence, witness |-> witness]

Transaction(version, lock_time, input, output) ==
    [version |-> version, lock_time |-> lock_time, input |-> input, output |-> output]

\* Transaction::default(): every field zero or empty
DefaultTransaction == Transaction(U32(0), U32(0), <<>>, <<>>)

\* VarInt: the compact size of a count or a length
VarInt(n) ==
    IF n < 253 THEN <<n>>
    ELSE IF n < 65536 THEN <<253>> \o ToLE(n, 2)
    ELSE <<254>> \o ToLE(n, 4)

EncBytes(b) == VarInt(Len(b)) \o b

EncTxIn(i) == i.previous_output.txid \o i.previous_output.vout
              \o EncBytes(i.script_sig) \o i.sequence

EncTxOut(o) == o.value \o EncBytes(o.script_pubkey)

RECURSIVE EncTxIns(_)
EncTxIns(ins) == IF ins = <<>> THEN <<>> ELSE EncTxIn(ins[1]) \o EncTxIns(Tail(ins))

RECURSIVE EncTxOuts(_)
EncTxOuts(outs) == IF outs = <<>> THEN <<>> ELSE EncTxOut(outs[1]) \o EncTxOuts(Tail(outs))

RECURSIVE EncItems(_)
EncItems(w) == IF w = <<>> THEN <<>> ELSE EncBytes(w[1]) \o EncItems(Tail(w))

RECURSIVE EncWitnesses(_)
EncWitnesses(ins) ==
    IF ins = <<>> THEN <<>>
    ELSE VarInt(Len(ins[1].witness)) \o EncItems(ins[1].witness) \o EncWitnesses(Tail(ins))

\* Faulty variant of serialize: the legacy form also for a transaction with no inputs,
\* whose input count 0 then reads as the BIP141 marker.
serialize_legacy_when_empty(tx) ==
    LET have_witness == \E i \in 1..Len(tx.input) : tx.input[i].witness # <<>>
    IN  IF ~have_witness
        THEN tx.version \o VarInt(Len(tx.input)) \o EncTxIns(tx.input)
             \o VarInt(Len(tx.output)) \o EncTxOuts(tx.output) \o tx.lock_time
        ELSE tx.version \o <<0, 1>> \o VarInt(Len(tx.input)) \o EncTxIns(tx.input)
             \o VarInt(Len(tx.output)) \o EncTxOuts(tx.output)
             \o EncWitnesses(tx.input) \o tx.lock_time

\* Transaction::consensus_encode: a transaction with no inputs, or with a
\* witness, is written in the BIP141 form (marker 0, flag 1)
serialize(tx) ==
    LET have_witness == tx.input = <<>> \/ \E i \in 1..Len(tx.input) : tx.input[i].witness # <<>>
    IN  IF ~have_witness
        THEN tx.version \o VarInt(Len(tx.input)) \o EncTxIns(tx.input)
             \o VarInt(Len(tx.output)) \o EncTxOuts(tx.output) \o tx.lock_time
        ELSE tx.version \o <<0, 1>> \o VarInt(Len(tx.input)) \o EncTxIns(tx.input)
             \o VarInt(Len(tx.output)) \o EncTxOuts(tx.output)
             \o EncWitnesses(tx.input) \o tx.lock_time

\* Transaction::txid: the double hash of the encoding without marker and witnesses
txid(tx) ==
    Sha256d(tx.version \o VarInt(Len(tx.input)) \o EncTxIns(tx.input)
            \o VarInt(Len(tx.output)) \o EncTxOuts(tx.output) \o tx.lock_time)

\* A decoding step: failed, or the value read and the position after it
DecFail == [ok |-> FALSE, val |-> <<>>, pos |-> 0]
DecOk(v, pos) == [ok |-> TRUE, val |-> v, pos |-> pos]

\* step, then K on its result; a failed step fails the whole (the `?` of Rust)
Then(step, K(_)) == Bind(step, LAMBDA r : IF ~r.ok THEN DecFail ELSE K(r))

DecFixed(s, pos, n) ==
    IF pos + n - 1 > Len(s) THEN DecFail ELSE DecOk(SubSeq(s, pos, pos + n - 1), pos + n)

\* VarInt::consensus_decode: rejects a non-minimal encoding; a length beyond
\* MAX_VEC_SIZE (4,000,000) is rejected by the vector that reads it
DecVarInt(s, pos) ==
    IF pos > Len(s) THEN DecFail
    ELSE IF s[pos] < 253 THEN DecOk(s[pos], pos + 1)
    ELSE IF s[pos] = 253
         THEN IF pos + 2 > Len(s) THEN DecFail
              ELSE LET v == s[pos + 1] + 256 * s[pos + 2]
                   IN  IF v < 253 THEN DecFail ELSE DecOk(v, pos + 3)
    ELSE IF s[pos] = 254
         THEN IF pos + 4 > Len(s) THEN DecFail
              ELSE IF s[pos + 4] # 0 THEN DecFail
              ELSE LET v == s[pos + 1] + 256 * s[pos + 2] + 65536 * s[pos + 3]
                   IN  IF v < 65536 \/ v > 4000000 THEN DecFail ELSE DecOk(v, pos + 5)
    ELSE DecFail

DecBytes(s, pos) == Then(DecVarInt(s, pos), LAMBDA n : DecFixed(s, n.pos, n.val))

DecTxIn(s, pos) ==
    Then(DecFixed(s, pos, 32), LAMBDA id :
    Then(DecFixed(s, id.pos, 4), LAMBDA vout :
    Then(DecBytes(s, vout.pos), LAMBDA sig :
    Then(DecFixed(s, sig.pos, 4), LAMBDA sequence :
        DecOk(TxIn(OutPoint(id.val, vout.val), sig.val, sequence.val, <<>>),
              sequence.pos)))))

DecTxOut(s, pos) ==
    Then(DecFixed(s, pos, 8), LAMBDA value :
    Then(DecBytes(s, value.pos), LAMBDA script :
        DecOk(TxOut(value.val, script.val), script.pos)))

RECURSIVE DecTxInsN(_, _, _)
DecTxInsN(s, pos, n) ==
    IF n = 0 THEN DecOk(<<>>, pos)
    ELSE Then(DecTxIn(s, pos), LAMBDA first :
         Then(DecTxInsN(s, first.pos, n - 1), LAMBDA rest :
             DecOk(<<first.val>> \o rest.val, rest.pos)))

RECURSIVE DecTxOutsN(_, _, _)
DecTxOutsN(s, pos, n) ==
    IF n = 0 THEN DecOk(<<>>, pos)
    ELSE Then(DecTxOut(s, pos), LAMBDA first :
         Then(DecTxOutsN(s, first.pos, n - 1), LAMBDA rest :
             DecOk(<<first.val>> \o rest.val, rest.pos)))

RECURSIVE DecItemsN(_, _, _)
DecItemsN(s, pos, n) ==
    IF n = 0 THEN DecOk(<<>>, pos)
    ELSE Then(DecBytes(s, pos), LAMBDA first :
         Then(DecItemsN(s, first.pos, n - 1), LAMBDA rest :
             DecOk(<<first.val>> \o rest.val, rest.pos)))

\* Vec<T>::consensus_decode: a count, then that many elements
DecTxIns(s, pos) == Then(DecVarInt(s, pos), LAMBDA n : DecTxInsN(s, n.pos, n.val))

DecTxOuts(s, pos) == Then(DecVarInt(s, pos), LAMBDA n : DecTxOutsN(s, n.pos, n.val))

DecItems(s, pos) == Then(DecVarInt(s, pos), LAMBDA n : DecItemsN(s, n.pos, n.val))

RECURSIVE DecWitnesses(_, _, _)
\* the witness of each input, in order, after the outputs
DecWitnesses(s, pos, ins) ==
    IF ins = <<>> THEN DecOk(<<>>, pos)
    ELSE Then(DecItems(s, pos), LAMBDA w :
         Then(DecWitnesses(s, w.pos, Tail(ins)), LAMBDA rest :
             DecOk(<<[ins[1] EXCEPT !.witness = w.val]>> \o rest.val, rest.pos)))

\* the BIP141 form, after the marker: the flag must be 1, and a flagged
\* transaction with inputs must carry a witness
DecSegwit(s, version, pos) ==
    Then(DecFixed(s, pos, 1), LAMBDA flag :
        IF flag.val # <<1>> THEN DecFail
        ELSE
    Then(DecTxIns(s, flag.pos), LAMBDA input :
    Then(DecTxOuts(s, input.pos), LAMBDA output :
    Then(DecWitnesses(s, output.pos, input.val), LAMBDA wits :
    Then(DecFixed(s, wits.pos, 4), LAMBDA lock_time :
        IF /\ wits.val # <<>>
           /\ \A i \in 1..Len(wits.val) : wits.val[i].witness = <<>>
        THEN DecFail
        ELSE DecOk(Transaction(version, lock_time.val, wits.val, output.val),
                   lock_time.pos))))))

\* Transaction::consensus_decode: an empty input vector announces the BIP141
\* form
DecTransaction(s) ==
    Then(DecFixed(s, 1, 4), LAMBDA version :
    Then(DecTxIns(s, version.pos), LAMBDA input :
        IF input.val = <<>>
        THEN DecSegwit(s, version.val, input.pos)
        ELSE
    Then(DecTxOuts(s, input.pos), LAMBDA output :
    Then(DecFixed(s, output.pos, 4), LAMBDA lock_time :
        DecOk(Transaction(version.val, lock_time.val, input.val, output.val),
              lock_time.pos)))))

\* encode::deserialize: decodes one transaction and requires that it consumed
\* all the bytes
deserialize(bytes) ==
    Bind(bytes, LAMBDA s :
        Bind(DecTransaction(s), LAMBDA r :
            IF r.ok /\ r.pos = Len(s) + 1
            THEN [ok |-> TRUE, tx |-> r.val]
            ELSE [ok |-> FALSE, tx |-> DefaultTransaction]))

(***************************************************************************)
(* The functions of main.rs.  A call returns (Ok) or panics; a panic names *)
(* the source line that raised it.                                         *)
(***************************************************************************)
NoString == <<>>

\* format!("OP_SHA256 {} OP_EQUAL", lock_hex)
format_redeem_script(lock_hex) ==
    <<"O","P","_","S","H","A","2","5","6"," ">> \o lock_hex \o <<" ","O","P","_","E","Q","U","A","L">>

\* The signature-hash helper the source calls on the transaction: the
\* SIGHASH_SINGLE digest for input `index`.  With no output at that index the
\* digest is the constant "one" (the value the test at main.rs:76 expects);
\* otherwise it is a double hash over the transaction, the script code and
\* that output.
sighash_output_single(transaction, index, output_script, script_code) ==
    IF index >= Len(transaction.output)
    THEN UINT256_ONE
    ELSE Sha256d(serialize(transaction) \o EncBytes(script_code)
                 \o EncTxOut(transaction.output[index + 1]))

generate_redeem_script(preimage, transaction) ==
    LET decoded == hex_decode(preimage)
        preimage_bytes == decoded.bytes
        lock_hex == to_hex(sighash_output_single(
                        transaction, 0,
                        push_slice(preimage_bytes),
                        push_opcode(OP_SHA256) \o push_slice(preimage_bytes)
                            \o push_opcode(OP_EQUAL)))
    IN  IF ~decoded.ok
        THEN [outcome |-> "panic", site |-> "main.rs:10", val |-> NoString]
        ELSE [outcome |-> "Ok", site |-> "", val |-> format_redeem_script(lock_hex)]

derive_address(redeem_script) ==
    LET decoded == hex_decode(redeem_script)
        script == push_slice(decoded.bytes)
        found == Address_from_script(script, "testnet")
    IN  IF ~decoded.ok
        THEN [outcome |-> "panic", site |-> "main.rs:21", val |-> NoAddress]
        ELSE IF ~found.some
        THEN [outcome |-> "panic", site |-> "main.rs:23", val |-> NoAddress]
        ELSE [outcome |-> "Ok", site |-> "", val |-> found.addr]

\* Faulty variant of construct_transaction: the output is built but a default input
\* is pushed as well and the version is left at its default.
construct_transaction_with_input(target_address, amount) ==
    LET txout == TxOut(amount, script_pubkey(target_address))
    IN  Transaction(U32(0), U32(0),
                    <<TxIn(OutPoint(Zeros(32), U32_MAX), <<>>, U32_MAX, <<>>)>>, <<txout>>)

construct_transaction(target_address, amount) ==
    LET txout == TxOut(amount, script_pubkey(target_address))
    IN  Transaction(U32(1), U32(0), <<>>, <<txout>>)

\* txid.into(): the out point of the previous transaction's output 0
spending_previous_output(prev_transaction) == OutPoint(txid(prev_transaction), U32(0))

spending_txin(prev_transaction, redeem_bytes) ==
    TxIn(spending_previous_output(prev_transaction), push_slice(redeem_bytes), U32_MAX, <<>>)

spending_txout1(amount_to_spend, change_address) ==
    TxOut(amount_to_spend, script_pubkey(change_address))

\* Faulty variant of spending_txout2: the residual output keeps the whole prior value.
spending_txout2_whole_value(prev_transaction, amount_to_spend) ==
    TxOut(prev_transaction.output[1].value, prev_transaction.output[1].script_pubkey)

\* prev_transaction.output[0].value - amount_to_spend, modulo 2^64
spending_txout2(prev_transaction, amount_to_spend) ==
    TxOut(CheckedSub(prev_transaction.output[1].value, amount_to_spend).value,
          prev_transaction.output[1].script_pubkey)

\* Faulty variant of spending_outputs: the residual output first, the payout second.
spending_outputs_swapped(prev_transaction, amount_to_spend, change_address) ==
    <<spending_txout2(prev_transaction, amount_to_spend),
      spending_txout1(amount_to_spend, change_address)>>

spending_outputs(prev_transaction, amount_to_spend, change_address) ==
    <<spending_txout1(amount_to_spend, change_address),
      spending_txout2(prev_transaction, amount_to_spend)>>

\* The panics, in the order the source reaches them: the hex decoding of the
\* redeem script (line 48), the index output[0] (line 57), and the
\* subtraction of line 57, which panics on overflow in a build with overflow
\* checks and wraps in a build without.
construct_spending_transaction(prev_transaction, redeem_script, amount_to_spend, change_address, checks) ==
    LET decoded == hex_decode(redeem_script)
    IN  IF ~decoded.ok
        THEN [outcome |-> "panic", site |-> "main.rs:48", val |-> DefaultTransaction]
        ELSE IF prev_transaction.output = <<>>
        THEN [outcome |-> "panic", site |-> "main.rs:57 index", val |-> DefaultTransaction]
        ELSE IF checks /\ CheckedSub(prev_transaction.output[1].value, amount_to_spend).overflow
        THEN [outcome |-> "panic", site |-> "main.rs:57 overflow", val |-> DefaultTransaction]
        ELSE [outcome |-> "Ok", site |-> "",
              val |-> Transaction(U32(1), U32(0),
                                  <<spending_txin(prev_transaction, decoded.bytes)>>,
                                  spending_outputs(prev_transaction, amount_to_spend,
                                                   change_address))]

(***************************************************************************)
(* Inputs                                                                  *)
(***************************************************************************)
\* the preimage of main.rs:115 and :74, "Btrust Builders" in hex
PreimageHex ==
    <<"4","2","7","4","7","2","7","5","7","3","7","4","2","0","4","2","7","5","6","9","6","c","6","4","6","5","7","2","7","3">>

\* the redeem script text of main.rs:128
RedeemScriptText == format_redeem_script(to_hex(UINT256_ONE \o <<0>>))

\* strings handed to the functions: valid hex (15 bytes, 1 byte), a string
\* with characters that are no hex digits, and the debug rendering of a
\* script, which has an odd length besides
Strings == {PreimageHex, <<"a","b">>, <<"z","z">>, RedeemScriptText}

\* redeem scripts handed to construct_spending_transaction
RedeemScripts == {PreimageHex, <<"z","z">>, RedeemScriptText}

\* amounts: zero, the two of main.rs:123 and :133, and the largest u64
Amounts == {U64(0), U64(10000), U64(50000), U64_MAX}

\* a test-network P2WPKH address (as tb1q... of main.rs:88) and a P2SH address
Addresses ==
    {[network |-> "testnet", kind |-> "witness", version |-> 0, program |-> [i \in 1..20 |-> 17]],
     [network |-> "testnet", kind |-> "p2sh", version |-> 0, program |-> [i \in 1..20 |-> 34]]}

(***************************************************************************)
(* State                                                                   *)
(***************************************************************************)
VARIABLES
    overflow_checks,  \* the build: TRUE panics on integer overflow, FALSE wraps
    held,             \* the transaction the caller holds as the prior one
    depth,            \* how many built transactions were kept as `held`
    op,               \* the function called last
    arg_str,          \* its string argument (preimage or redeem script)
    arg_tx,           \* its transaction argument
    arg_amount,       \* its amount
    arg_addr,         \* its address
    outcome,          \* "none", "Ok" or "panic"
    panic_site,       \* the source line that panicked
    ret_str,          \* the string returned
    ret_addr,         \* the address returned
    ret_tx,           \* the transaction returned
    wire,             \* serialize(ret_tx), once serialized
    dec_ok,           \* whether deserialize(wire) succeeded
    dec_tx,           \* the transaction deserialize(wire) gave
    main_pc,          \* main(): "start", "returned" or "panicked"
    main_steps,       \* the steps main() completed, in order
    main_site,        \* where main() panicked
    main_funding,     \* the funding transaction main() built
    main_spending     \* the spending transaction main() built

call_vars == <<op, arg_str, arg_tx, arg_amount, arg_addr, outcome, panic_site,
               ret_str, ret_addr, ret_tx>>
wire_vars == <<wire, dec_ok, dec_tx>>
main_vars == <<main_pc, main_steps, main_site, main_funding, main_spending>>
vars == <<overflow_checks, held, depth, call_vars, wire_vars, main_vars>>

Init ==
    /\ overflow_checks \in BOOLEAN
    /\ held = DefaultTransaction
    /\ depth = 0
    /\ op = "none"
    /\ arg_str = NoString
    /\ arg_tx = DefaultTransaction
    /\ arg_amount = U64(0)
    /\ arg_addr = NoAddress
    /\ outcome = "none"
    /\ panic_site = ""
    /\ ret_str = NoString
    /\ ret_addr = NoAddress
    /\ ret_tx = DefaultTransaction
    /\ wire = <<>>
    /\ dec_ok = FALSE
    /\ dec_tx = DefaultTransaction
    /\ main_pc = "start"
    /\ main_steps = <<>>
    /\ main_site = ""
    /\ main_funding = DefaultTransaction
    /\ main_spending = DefaultTransaction

NoWire == wire' = <<>> /\ dec_ok' = FALSE /\ dec_tx' = DefaultTransaction

(***************************************************************************)
(* Calls                                                                   *)
(***************************************************************************)
GenerateRedeemScript ==
    \E preimage \in Strings :
        \E r \in {generate_redeem_script(preimage, held)} :
            /\ op' = "generate_redeem_script"
            /\ arg_str' = preimage
            /\ arg_tx' = held
            /\ arg_amount' = U64(0)
            /\ arg_addr' = NoAddress
            /\ outcome' = r.outcome
            /\ panic_site' = r.site
            /\ ret_str' = r.val
            /\ ret_addr' = NoAddress
            /\ ret_tx' = DefaultTransaction
            /\ NoWire
            /\ UNCHANGED <<overflow_checks, held, depth, main_vars>>

\* the argument is any string, among them the one generate_redeem_script
\* returned (main.rs:118)
DeriveAddress ==
    \E redeem_script \in Strings \cup {ret_str} :
        \E r \in {derive_address(redeem_script)} :
            /\ op' = "derive_address"
            /\ arg_str' = redeem_script
            /\ arg_tx' = DefaultTransaction
            /\ arg_amount' = U64(0)
            /\ arg_addr' = NoAddress
            /\ outcome' = r.outcome
            /\ panic_site' = r.site
            /\ ret_str' = NoString
            /\ ret_addr' = r.val
            /\ ret_tx' = DefaultTransaction
            /\ NoWire
            /\ UNCHANGED <<overflow_checks, held, depth, main_vars>>

ConstructTransaction ==
    \E target_address \in Addresses, amount \in Amounts :
        \E tx \in {construct_transaction(target_address, amount)} :
            /\ op' = "construct_transaction"
            /\ arg_str' = NoString
            /\ arg_tx' = DefaultTransaction
            /\ arg_amount' = amount
            /\ arg_addr' = target_address
            /\ outcome' = "Ok"
            /\ panic_site' = ""
            /\ ret_str' = NoString
            /\ ret_addr' = NoAddress
            /\ ret_tx' = tx
            /\ NoWire
            /\ UNCHANGED <<overflow_checks, held, depth, main_vars>>

ConstructSpendingTransaction ==
    \E redeem_script \in RedeemScripts, amount_to_spend \in Amounts,
       change_address \in Addresses :
        \E r \in {construct_spending_transaction(held, redeem_script, amount_to_spend,
                                                  change_address, overflow_checks)} :
            /\ op' = "construct_spending_transaction"
            /\ arg_str' = redeem_script
            /\ arg_tx' = held
            /\ arg_amount' = amount_to_spend
            /\ arg_addr' = change_address
            /\ outcome' = r.outcome
            /\ panic_site' = r.site
            /\ ret_str' = NoString
            /\ ret_addr' = NoAddress
            /\ ret_tx' = r.val
            /\ NoWire
            /\ UNCHANGED <<overflow_checks, held, depth, main_vars>>

\* the caller keeps the transaction just built and passes it as the prior
\* one of the next spending transaction (main.rs:124, :131)
KeepTransaction ==
    /\ op \in {"construct_transaction", "construct_spending_transaction"}
    /\ outcome = "Ok"
    /\ depth < MaxChain
    /\ held # ret_tx
    /\ held' = ret_tx
    /\ depth' = depth + 1
    /\ UNCHANGED <<overflow_checks, call_vars, wire_vars, main_vars>>

\* the transaction just built is serialized (main.rs:126, :137) and the bytes
\* are deserialized again (main.rs:101)
SerializeDeserialize ==
    /\ op \in {"construct_transaction", "construct_spending_transaction"}
    /\ outcome = "Ok"
    /\ wire = <<>>
    /\ \E bytes \in {serialize(ret_tx)} :
         \E back \in {deserialize(bytes)} :
           /\ wire' = bytes
           /\ dec_ok' = back.ok
           /\ dec_tx' = back.tx
    /\ UNCHANGED <<overflow_checks, held, depth, call_vars, main_vars>>

(***************************************************************************)
(* main(): the workflow, one call after the other; a panic in a call ends  *)
(* the process where it is raised.                                         *)
(***************************************************************************)
MainSteps == <<"generate_redeem_script", "derive_address", "construct_transaction",
               "serialize funding", "derive_address change",
               "construct_spending_transaction", "serialize spending">>

main_result(checks) ==
    LET Stop(n, site, funding) ==
            [pc |-> "panicked", steps |-> SubSeq(MainSteps, 1, n), site |-> site,
             funding |-> funding, spending |-> DefaultTransaction]
    IN  Bind(generate_redeem_script(PreimageHex, DefaultTransaction), LAMBDA redeem_script :
            IF redeem_script.outcome # "Ok" THEN Stop(0, redeem_script.site, DefaultTransaction)
            ELSE
        Bind(derive_address(redeem_script.val), LAMBDA target_address :
            IF target_address.outcome # "Ok"
            THEN Stop(1, target_address.site, DefaultTransaction)
            ELSE
        Bind(construct_transaction(target_address.val, U64(50000)), LAMBDA transaction :
        Bind(derive_address(RedeemScriptText), LAMBDA change_address :
            IF change_address.outcome # "Ok" THEN Stop(4, change_address.site, transaction)
            ELSE
        Bind(construct_spending_transaction(transaction, RedeemScriptText, U64(10000),
                                            change_address.val, checks),
             LAMBDA spending_transaction :
            IF spending_transaction.outcome # "Ok"
            THEN Stop(5, spending_transaction.site, transaction)
            ELSE [pc |-> "returned", steps |-> MainSteps, site |-> "",
                  funding |-> transaction, spending |-> spending_transaction.val])))))

Main ==
    /\ main_pc = "start"
    /\ \E r \in {main_result(overflow_checks)} :
           /\ main_pc' = r.pc
           /\ main_steps' = r.steps
           /\ main_site' = r.site
           /\ main_funding' = r.funding
           /\ main_spending' = r.spending
    /\ UNCHANGED <<overflow_checks, held, depth, call_vars, wire_vars>>

Next ==
    \/ GenerateRedeemScript
    \/ DeriveAddress
    \/ ConstructTransaction
    \/ ConstructSpendingTransaction
    \/ KeepTransaction
    \/ SerializeDeserialize
    \/ Main

Spec == Init /\ [][Next]_vars

(***************************************************************************)
(* Properties                                                              *)
(*                                                                         *)
(* The functions of main.rs return plain values, so a call ends "Ok" or    *)
(* "panic"; a typed error would be a third outcome, "Err(<kind>)".         *)
(***************************************************************************)
Spent == op = "construct_spending_transaction"
SpentOk == Spent /\ outcome = "Ok"
ValidHex == hex_decode(arg_str).ok
PriorValue == arg_tx.output[1].value

\* C1: a spending transaction returned for spendAmount <= prior.output[0].value
\* has exactly two outputs, output 0 = spendAmount and output 1 = the prior
\* value minus spendAmount, and their exact (unwrapped) sum is the prior value.
C1_SpendSumsToPrior ==
    (SpentOk /\ arg_tx.output # <<>> /\ Leq(arg_amount, PriorValue)) =>
        /\ Len(ret_tx.output) = 2
        /\ ret_tx.output[1].value = arg_amount
        /\ ExactSum(ret_tx.output[2].value, arg_amount) = Widen(PriorValue)
        /\ ExactSum(ret_tx.output[1].value, ret_tx.output[2].value) = Widen(PriorValue)

C1_Witness ==
    /\ SpentOk
    /\ PriorValue = U64(50000)
    /\ arg_amount = U64(10000)
    /\ ret_tx.output[2].value = U64(40000)

\* C2: with a prior output and spendAmount > prior.output[0].value (and a
\* redeem script that decodes), the call fails with the typed error
\* InsufficientFunds: it neither panics nor returns a transaction whose output
\* 1 holds the wrapped difference.
C2_InsufficientFunds ==
    (Spent /\ ValidHex /\ arg_tx.output # <<>> /\ ~Leq(arg_amount, PriorValue)) =>
        /\ outcome = "Err(InsufficientFunds)"
        /\ outcome # "panic"
        /\ ~(outcome = "Ok" /\ ret_tx.output[2].value = CheckedSub(PriorValue, arg_amount).value)

\* C3: with a prior transaction that has no outputs (and a redeem script that
\* decodes), the call fails with the typed error NoPriorOutput instead of
\* panicking on output[0].
C3_NoPriorOutput ==
    (Spent /\ ValidHex /\ arg_tx.output = <<>>) =>
        outcome = "Err(NoPriorOutput)" /\ outcome # "panic"

C5_FundingShape ==
    op = "construct_transaction" =>
        /\ outcome = "Ok"
        /\ ret_tx.input = <<>>
        /\ Len(ret_tx.output) = 1
        /\ ret_tx.output[1].value = arg_amount
        /\ ret_tx.output[1].script_pubkey = script_pubkey(arg_addr)
        /\ ret_tx.version = U32(1)
        /\ ret_tx.lock_time = U32(0)

C5_Witness ==
    /\ op = "construct_transaction"
    /\ arg_amount = U64(50000)
    /\ arg_addr.kind = "witness"
    /\ ret_tx.output[1].value = U64(50000)

\* C6: the script generate_redeem_script returns for a preimage that decodes
\* is HASH <digest> EQUAL with digest = the ledger hash (SHA-256) of the
\* decoded preimage bytes.
C6_DigestIsHashOfPreimage ==
    (op = "generate_redeem_script" /\ ValidHex) =>
        /\ outcome = "Ok"
        /\ ret_str = format_redeem_script(to_hex(Sha256(hex_decode(arg_str).bytes)))

\* C7: value conservation, for the transactions that reference an input: the
\* exact sum of the outputs of a returned spending transaction does not
\* exceed the value of the prior output its input references.  (A funding
\* transaction has no input by construction, main.rs:34.)
C7_ValueConservation ==
    SpentOk =>
        Leq(ExactSum(ret_tx.output[1].value, ret_tx.output[2].value), Widen(PriorValue))

\* C8: a function that decodes a hex string fails with the typed error
\* InvalidHexEncoding, and does not panic, when the string is not valid hex.
C8_InvalidHexIsTypedError ==
    (/\ op \in {"generate_redeem_script", "derive_address", "construct_spending_transaction"}
     /\ ~ValidHex) =>
        outcome = "Err(InvalidHexEncoding)" /\ outcome # "panic"

\* C9: main() never aborts, and when it has run it completed every step in
\* order and built the funding transaction of 50000 and the spending
\* transaction of 10000, whose input references the funding transaction at
\* index 0 and whose outputs are 10000 and 40000, output 1 with the funding
\* output's script.
C9_MainCompletes ==
    /\ main_pc # "panicked"
    /\ main_pc = "returned" =>
        /\ main_steps = MainSteps
        /\ main_funding.output[1].value = U64(50000)
        /\ main_spending.input[1].previous_output = OutPoint(txid(main_funding), U32(0))
        /\ main_spending.output[1].value = U64(10000)
        /\ main_spending.output[2].value = U64(40000)
        /\ main_spending.output[2].script_pubkey = main_funding.output[1].script_pubkey

\* C10: deserializing the serialized bytes of a transaction built by
\* construct_transaction or construct_spending_transaction succeeds and gives
\* a transaction equal to the one built.
C10_RoundTrip ==
    wire # <<>> => (dec_ok /\ dec_tx = ret_tx)

C10_Witness ==
    /\ wire # <<>>
    /\ op = "construct_transaction"
    /\ ret_tx.input = <<>>
    /\ dec_tx = ret_tx
    /\ dec_tx.output[1].value = U64(50000)

=============================================================================
